---- MODULE Spec2Model ----
(***************************************************************************)
(* Zarr-Fanout-CKE: the fanout chunk key encoding.                         *)
(*                                                                         *)
(* src/src/zarr_fanout_cke/fanout_cke.py : FanoutChunkKeyEncoding with     *)
(*   __post_init__ (validation and power-of-10 flooring), the cached       *)
(*   decimal_len, _fanout_coord and encode_chunk_key.                      *)
(* src/src/zarr_fanout_cke/__init__.py   : the package-exported            *)
(*   FanoutChunkKeyEncoding (base max_children - 1, "d<i>" segments).      *)
(*                                                                         *)
(* A Python str is a sequence of one-character strings; a list of str is a *)
(* sequence of such sequences.  Python ints are unbounded; the inputs of   *)
(* the model stay far below 2^31, so no operation here wraps.              *)
(***************************************************************************)
EXTENDS Integers, Sequences, FiniteSets, TLC

(***************************************************************************)
(* Bounds of the model.                                                    *)
(***************************************************************************)
MaxDims == 2

MaxIter == 32

NThreads == 2

ScanLimit == 104

(***************************************************************************)
(* Python built-ins used by the source.                                    *)
(***************************************************************************)
DigitChars == <<"0", "1", "2", "3", "4", "5", "6", "7", "8", "9">>

RECURSIVE StrNat(_)
\* str(n) for n >= 0: the decimal digits, most significant first, no padding.
StrNat(n) ==
    IF n < 10 THEN <<DigitChars[n + 1]>>
    ELSE StrNat(n \div 10) \o <<DigitChars[(n % 10) + 1]>>

\* str(n) for any int: a leading "-" for a negative value.
Str(n) == IF n < 0 THEN <<"-">> \o StrNat(-n) ELSE StrNat(n)

RECURSIVE Pow(_, _)
\* b ** e for e >= 0.
Pow(b, e) == IF e = 0 THEN 1 ELSE b * Pow(b, e - 1)

RECURSIVE Repeat(_, _)
\* ch * k: the string of k copies of ch.
Repeat(ch, k) == IF k <= 0 THEN <<>> ELSE <<ch>> \o Repeat(ch, k - 1)

\* Mutant of FormatZeroPad: the width of the format spec is lost.
FormatZeroPad_NoPadding(x, w) == Str(x)

\* f"{x:0{w}d}": sign-aware zero padding to a minimum width of w; a longer
\* value is never truncated.
FormatZeroPad(x, w) ==
    IF x < 0
    THEN <<"-">> \o Repeat("0", w - 1 - Len(StrNat(-x))) \o StrNat(-x)
    ELSE Repeat("0", w - Len(StrNat(x))) \o StrNat(x)

RECURSIVE Join(_, _)
\* sep.join(parts): the parts in order with sep between neighbours (joined
\* by halves, which keeps the evaluation shallow).
Join(sep, parts) ==
    IF Len(parts) = 0 THEN <<>>
    ELSE IF Len(parts) = 1 THEN parts[1]
    ELSE LET h == Len(parts) \div 2
         IN Join(sep, SubSeq(parts, 1, h)) \o <<sep>>
                \o Join(sep, SubSeq(parts, h + 1, Len(parts)))

\* parts[::-1]
Reverse(s) == [i \in 1..Len(s) |-> s[Len(s) + 1 - i]]

(***************************************************************************)
(* fanout_cke.py: FanoutChunkKeyEncoding                                   *)
(***************************************************************************)
\* The class-level default of the max_children field.
DefaultMaxChildren == 1000

\* The validation floor of __post_init__.
MinMaxChildren == 100

\* Mutant of FlooredMaxChildren: the digits of original - 1 are counted, so
\* an exact power of 10 falls to the power below.
FlooredMaxChildren_OffByOne(original) == Pow(10, Len(Str(original - 1)) - 1)

\* Mutant of FlooredMaxChildren: the "- 1" of the exponent is forgotten.
FlooredMaxChildren_NextPower(original) == Pow(10, Len(Str(original)))

\* floored_max_children = 10 ** (len(str(original_max_children)) - 1)
FlooredMaxChildren(original) == Pow(10, Len(Str(original)) - 1)

\* Mutant of PostInit: a value below the floor is replaced by the default
\* instead of being rejected.
PostInit_SubstitutesDefault(n) ==
    IF n < MinMaxChildren
    THEN [raised |-> FALSE, warned |-> TRUE, max_children |-> DefaultMaxChildren]
    ELSE [raised |-> FALSE,
          warned |-> (n # FlooredMaxChildren(n)),
          max_children |-> FlooredMaxChildren(n)]

\* __post_init__: the outcome of constructing FanoutChunkKeyEncoding(n).
\* raised = TRUE: ValueError, no object exists.  Otherwise the object's
\* max_children field and whether warnings.warn(UserWarning) was called.
PostInit(n) ==
    IF n < MinMaxChildren
    THEN [raised |-> TRUE, warned |-> FALSE, max_children |-> n]
    ELSE [raised |-> FALSE,
          warned |-> (n # FlooredMaxChildren(n)),
          max_children |-> FlooredMaxChildren(n)]

\* Mutant of DecimalLen: the digits of max_children itself are counted.
DecimalLen_OfMaxChildren(self) == Len(Str(self.max_children))

\* The body of the decimal_len property: len(str(self.max_children - 1))
DecimalLen(self) == Len(Str(self.max_children - 1))

\* Mutant of CacheStore: the value is written over the max_children field.
CacheStore_Clobbers(self, val) == [self EXCEPT !.max_children = val]

\* cached_property's write of the computed value into the instance __dict__.
CacheStore(self, val) == ("decimal_len" :> val) @@ self

\* self.decimal_len through cached_property: the cached entry of the instance
\* __dict__ when there is one, otherwise the property body.
GetDecimalLen(self) ==
    IF "decimal_len" \in DOMAIN self THEN self.decimal_len ELSE DecimalLen(self)

RECURSIVE FanoutWhile_DropsLeadingGroup(_, _, _, _)
\* Mutant of FanoutWhile: the loop stops once coord is below max_children,
\* and the most significant group is never appended.
FanoutWhile_DropsLeadingGroup(self, coord, parts, fuel) ==
    IF coord >= self.max_children
    THEN IF fuel = 0 THEN <<"diverged">>
         ELSE FanoutWhile_DropsLeadingGroup(
                  self, coord \div self.max_children,
                  Append(parts, FormatZeroPad(coord % self.max_children,
                                              GetDecimalLen(self))),
                  fuel - 1)
    ELSE Reverse(parts)

RECURSIVE FanoutWhile(_, _, _, _)
\* The while loop of _fanout_coord: parts collects the groups least
\* significant first.  fuel counts the iterations still allowed; a loop that
\* needs more is reported as <<"diverged">>.
FanoutWhile(self, coord, parts, fuel) ==
    IF coord > 0
    THEN IF fuel = 0 THEN <<"diverged">>
         ELSE FanoutWhile(self, coord \div self.max_children,
                          Append(parts, FormatZeroPad(coord % self.max_children,
                                                      GetDecimalLen(self))),
                          fuel - 1)
    ELSE Reverse(parts)

\* _fanout_coord(coord): the digit groups of one component, most significant
\* first.
FanoutCoord(self, coord) ==
    IF coord = 0 THEN <<Repeat("0", GetDecimalLen(self))>>
    ELSE FanoutWhile(self, coord, <<>>, MaxIter)

RECURSIVE EncodeParts_NoMarker(_, _, _)
\* Mutant of EncodeParts: the depth marker is not appended.
EncodeParts_NoMarker(self, chunk_coords, parts) ==
    IF Len(chunk_coords) = 0 THEN parts
    ELSE LET coords == FanoutCoord(self, Head(chunk_coords))
         IN IF coords = <<"diverged">> \/ parts = <<"diverged">>
            THEN <<"diverged">>
            ELSE EncodeParts_NoMarker(self, Tail(chunk_coords), parts \o coords)

RECURSIVE EncodeParts(_, _, _)
\* The for loop of encode_chunk_key: parts after the remaining components.
EncodeParts(self, chunk_coords, parts) ==
    IF Len(chunk_coords) = 0 THEN parts
    ELSE LET coords == FanoutCoord(self, Head(chunk_coords))
         IN IF coords = <<"diverged">> \/ parts = <<"diverged">>
            THEN <<"diverged">>
            ELSE EncodeParts(self, Tail(chunk_coords),
                             Append(parts, Str(Len(coords) - 1)) \o coords)

\* encode_chunk_key(chunk_coords): the returned key, or <<"diverged">> when a
\* loop of the call does not end.
EncodeChunkKey(self, chunk_coords) ==
    LET parts == EncodeParts(self, chunk_coords, <<<<"c">>>>)
    IN IF parts = <<"diverged">> THEN parts ELSE Join("/", parts)

\* The instance __dict__ after encode_chunk_key(chunk_coords): decimal_len is
\* read, and so cached, exactly when _fanout_coord meets a component >= 0.
SelfAfterEncode(self, chunk_coords) ==
    IF \E i \in 1..Len(chunk_coords) : chunk_coords[i] >= 0
    THEN CacheStore(self, GetDecimalLen(self))
    ELSE self

(***************************************************************************)
(* The persisted-metadata interface of the host library.                   *)
(***************************************************************************)
\* to_dict(): {"name": "fanout", "configuration": {"max_children": ...}}
ToDict(self) ==
    [name |-> "fanout", configuration |-> [max_children |-> self.max_children]]

\* from_dict(data): cls(**data["configuration"]), with the class default
\* when max_children is absent.
FromDict(data) ==
    IF "configuration" \in DOMAIN data
       /\ "max_children" \in DOMAIN data.configuration
    THEN PostInit(data.configuration.max_children)
    ELSE PostInit(DefaultMaxChildren)

(***************************************************************************)
(* Inputs.                                                                 *)
(***************************************************************************)
\* Raw max_children values handed to the constructor.
RawValues ==
    (-1..1) \cup (98..101) \cup {150, 999, 1000, 1234, 10000, 56789}

\* Values of one coordinate component.
CoordValues == {-1, 0, 1, 100, 12345}

\* Coordinates: tuples of 0..MaxDims components.
Coords == UNION {[1..d -> CoordValues] : d \in 0..MaxDims}

NonNegative(chunk_coords) == \A i \in 1..Len(chunk_coords) : chunk_coords[i] >= 0

(***************************************************************************)
(* Notions the properties are stated in: decimal numerals and positional  *)
(* values read back from the characters of a key, not produced by the      *)
(* operators that model the encoder.                                       *)
(***************************************************************************)
\* The number of decimal digits of n >= 1.
Digits(n) == CHOOSE d \in 1..9 : Pow(10, d - 1) <= n /\ n < Pow(10, d)

IsDigit(ch) == \E d \in 0..9 : DigitChars[d + 1] = ch

DigitVal(ch) == CHOOSE d \in 0..9 : DigitChars[d + 1] = ch

\* A non-empty string of decimal digits.
IsNumeral(seg) == Len(seg) >= 1 /\ \A i \in 1..Len(seg) : IsDigit(seg[i])

RECURSIVE NumeralValue(_)
\* The number a string of decimal digits denotes.
NumeralValue(seg) ==
    IF Len(seg) = 0 THEN 0
    ELSE 10 * NumeralValue(SubSeq(seg, 1, Len(seg) - 1)) + DigitVal(seg[Len(seg)])

\* An unpadded decimal numeral: no leading zero except for "0" itself.
IsUnpadded(seg) == IsNumeral(seg) /\ (Len(seg) > 1 => seg[1] # "0")

\* The '/'-separated segments of a key: the k-th one lies between the
\* (k-1)-th and the k-th '/'.
Segments(key) ==
    LET slashes == {i \in 1..Len(key) : key[i] = "/"}
        Slash(k) == IF k = 0 THEN 0
                    ELSE IF k > Cardinality(slashes) THEN Len(key) + 1
                    ELSE CHOOSE i \in slashes : Cardinality({j \in slashes : j < i}) = k - 1
    IN [k \in 1..(Cardinality(slashes) + 1) |->
            SubSeq(key, Slash(k - 1) + 1, Slash(k) - 1)]

\* s is a proper prefix of t.
ProperPrefix(s, t) == Len(s) < Len(t) /\ SubSeq(t, 1, Len(s)) = s

RECURSIVE GroupsValue(_, _)
\* The number whose base-mc digits, most significant first, are the groups.
GroupsValue(groups, mc) ==
    IF Len(groups) = 0 THEN 0
    ELSE mc * GroupsValue(SubSeq(groups, 1, Len(groups) - 1), mc)
         + NumeralValue(groups[Len(groups)])

\* seg is a digit group of the configuration: digit_width decimal digits
\* with a value below max_children.
IsGroup(seg, mc) ==
    /\ IsNumeral(seg)
    /\ Len(seg) = Digits(mc - 1)
    /\ NumeralValue(seg) \in 0..(mc - 1)

RECURSIVE Framed(_, _, _, _)
\* Reading segs from position pos: ndims times a depth marker m followed by
\* exactly m + 1 digit groups, and then the end of the key.
Framed(segs, pos, ndims, mc) ==
    IF ndims = 0 THEN pos = Len(segs) + 1
    ELSE /\ pos <= Len(segs)
         /\ IsUnpadded(segs[pos])
         /\ LET m == NumeralValue(segs[pos])
            IN /\ pos + m + 1 <= Len(segs)
               /\ \A j \in (pos + 1)..(pos + m + 1) : IsGroup(segs[j], mc)
               /\ Framed(segs, pos + m + 2, ndims - 1, mc)

RECURSIVE Canonical(_, _, _, _)
\* segs from position pos spell the components of coords in order: for each
\* the marker (group_count - 1) and then the canonical base-mc digits of the
\* component as zero-padded groups.
Canonical(segs, pos, coords, mc) ==
    IF Len(coords) = 0 THEN pos = Len(segs) + 1
    ELSE /\ pos <= Len(segs)
         /\ IsUnpadded(segs[pos])
         /\ LET k == NumeralValue(segs[pos]) + 1
                groups == SubSeq(segs, pos + 1, pos + k)
            IN /\ pos + k <= Len(segs)
               /\ \A j \in 1..k : IsGroup(groups[j], mc)
               /\ GroupsValue(groups, mc) = Head(coords)
               /\ Head(coords) = 0 => k = 1
               /\ Head(coords) > 0 => NumeralValue(groups[1]) # 0
               /\ Canonical(segs, pos + k + 1, Tail(coords), mc)

(***************************************************************************)
(* __init__.py: the package-exported FanoutChunkKeyEncoding                *)
(***************************************************************************)
\* The class-level default of the max_children field of the exported class.
PkgDefaultMaxChildren == 1001

\* Mutant of PkgBase: max_children itself is the base.
PkgBase_IsMaxChildren(self) == self.max_children

\* base = self.max_children - 1
PkgBase(self) == self.max_children - 1

RECURSIVE PkgFanoutWhile(_, _, _, _)
\* The while loop of _fanout_coord and the statements after it.  divmod by a
\* base of 0 raises ZeroDivisionError; fuel counts the iterations still
\* allowed, and a loop that needs more is reported as diverged.
PkgFanoutWhile(coord, base, parts, fuel) ==
    IF coord >= base
    THEN IF base = 0 THEN [outcome |-> "ZeroDivisionError", parts |-> <<>>]
         ELSE IF fuel = 0 \/ base < 0 THEN [outcome |-> "diverged", parts |-> <<>>]
         ELSE PkgFanoutWhile(coord \div base, base,
                             Append(parts, Str(coord % base)), fuel - 1)
    ELSE [outcome |-> "returned", parts |-> Reverse(Append(parts, Str(coord)))]

\* _fanout_coord(coord) of the exported class.
PkgFanoutCoord(self, coord) == PkgFanoutWhile(coord, PkgBase(self), <<>>, MaxIter)

RECURSIVE PkgEncodeParts(_, _, _, _)
\* The for loop of encode_chunk_key of the exported class, dim counting from 0.
PkgEncodeParts(self, chunk_coords, dim, parts) ==
    IF Len(chunk_coords) = 0
    THEN [outcome |-> "returned", parts |-> Append(parts, <<"c">>)]
    ELSE LET r == PkgFanoutCoord(self, Head(chunk_coords))
         IN IF r.outcome # "returned" THEN r
            ELSE PkgEncodeParts(self, Tail(chunk_coords), dim + 1,
                                parts \o <<<<"d">> \o Str(dim)>> \o r.parts)

\* encode_chunk_key(chunk_coords) of the exported class.
PkgEncodeChunkKey(self, chunk_coords) ==
    LET r == PkgEncodeParts(self, chunk_coords, 0, <<>>)
    IN IF r.outcome # "returned" THEN [outcome |-> r.outcome, key |-> <<>>]
       ELSE [outcome |-> "returned", key |-> Join("/", r.parts)]

(***************************************************************************)
(* State.                                                                  *)
(***************************************************************************)
VARIABLES
    obj,        \* "none": no constructor call yet; "failed": the last one
                \* raised ValueError and left no object; "built": one exists
    raw,        \* the value the last constructor call was given
    warned,     \* the last constructor call emitted the UserWarning
    inst,       \* the instance __dict__ of the configuration object
    call,       \* the last encode_chunk_key call: coords, outcome, key
    restored,   \* the outcome of from_dict(to_dict(object))
    thr,        \* per thread: the frame of its encode_chunk_key call
    store,      \* the directory tree of the store the keys are written to
    scan,       \* the writer filling the store: next coordinate and stride
    pkg         \* the exported class: its object and its last call

vars == <<obj, raw, warned, inst, call, restored, thr, store, scan, pkg>>

\* No object: an instance __dict__ without any attribute.
NoInst == <<>>

NoCall == [coords |-> <<>>, outcome |-> "none", key |-> <<>>]

NoRestore == [done |-> FALSE, raised |-> FALSE, warned |-> FALSE, max_children |-> 0]

Threads == 1..NThreads

IdleFrame ==
    [pc |-> "idle", args |-> <<>>, dim |-> 1, coord |-> 0, rem |-> 0, val |-> 0,
     miss |-> FALSE, groups |-> <<>>, parts |-> <<>>, ret |-> <<>>]

NoScan == [pos |-> 0, stride |-> 1, shape |-> "x"]

NoPkg == [max_children |-> PkgDefaultMaxChildren, op |-> "none", arg |-> <<>>,
          outcome |-> "none", result |-> <<>>]

(***************************************************************************)
(* Spec: one caller constructing configurations, encoding coordinates and  *)
(* round-tripping the configuration through its metadata dictionary.       *)
(***************************************************************************)
Init ==
    /\ obj = "none"
    /\ raw = 0
    /\ warned = FALSE
    /\ inst = NoInst
    /\ call = NoCall
    /\ restored = NoRestore
    /\ thr = [t \in Threads |-> IdleFrame]
    /\ store = {}
    /\ scan = NoScan
    /\ pkg = NoPkg

\* FanoutChunkKeyEncoding(max_children=n): the dataclass __init__ followed by
\* __post_init__.  A ValueError leaves no object behind.
Construct(n) ==
    LET r == PostInit(n)
    IN /\ raw' = n
       /\ warned' = r.warned
       /\ obj' = IF r.raised THEN "failed" ELSE "built"
       /\ inst' = IF r.raised THEN NoInst ELSE [max_children |-> r.max_children]
       /\ call' = NoCall
       /\ restored' = NoRestore
       /\ UNCHANGED <<thr, store, scan, pkg>>

\* key = cfg.encode_chunk_key(chunk_coords)
Encode(chunk_coords) ==
    /\ obj = "built"
    /\ LET key == EncodeChunkKey(inst, chunk_coords)
       IN call' = [coords |-> chunk_coords,
                   outcome |-> IF key = <<"diverged">> THEN "diverged" ELSE "returned",
                   key |-> key]
    /\ inst' = SelfAfterEncode(inst, chunk_coords)
    /\ UNCHANGED <<obj, raw, warned, restored, thr, store, scan, pkg>>

\* restored = FanoutChunkKeyEncoding.from_dict(cfg.to_dict())
RoundTrip ==
    /\ obj = "built"
    /\ LET r == FromDict(ToDict(inst))
       IN restored' = [done |-> TRUE, raised |-> r.raised, warned |-> r.warned,
                       max_children |-> r.max_children]
    /\ UNCHANGED <<obj, raw, warned, inst, call, thr, store, scan, pkg>>

Next ==
    \/ \E n \in RawValues : Construct(n)
    \/ \E c \in Coords : Encode(c)
    \/ RoundTrip

Spec == Init /\ [][Next]_vars

(***************************************************************************)
(* SpecConc: threads calling encode_chunk_key on one shared configuration. *)
(* A step is one access to the shared object or a run of thread-local      *)
(* statements.                                                             *)
(***************************************************************************)
\* The raw values the shared configuration is constructed from.
ConcRawValues == {100, 1234}

\* The coordinates the threads encode.
ConcCoords == {<<>>, <<0>>, <<12345>>, <<99, 100>>, <<-1>>}

InitConc ==
    /\ \E n \in ConcRawValues :
          /\ raw = n
          /\ warned = PostInit(n).warned
          /\ inst = [max_children |-> PostInit(n).max_children]
    /\ obj = "built"
    /\ call = NoCall
    /\ restored = NoRestore
    /\ thr = [t \in Threads |-> IdleFrame]
    /\ store = {}
    /\ scan = NoScan
    /\ pkg = NoPkg

ConcUnchanged == UNCHANGED <<obj, raw, warned, call, restored, store, scan, pkg>>

\* encode_chunk_key is entered: parts = ["c"].
ThrCall(t, c) ==
    /\ thr[t].pc = "idle"
    /\ thr' = [thr EXCEPT ![t] = [IdleFrame EXCEPT !.pc = "for", !.args = c,
                                                    !.parts = <<<<"c">>>>]]
    /\ UNCHANGED inst
    /\ ConcUnchanged

\* for coord in chunk_coords: _fanout_coord(coord) is entered, or the loop
\* ends and "/".join(parts) is returned.
ThrFor(t) ==
    /\ thr[t].pc = "for"
    /\ thr' = [thr EXCEPT ![t] =
                 IF thr[t].dim > Len(thr[t].args)
                 THEN [thr[t] EXCEPT !.pc = "done", !.ret = Join("/", thr[t].parts)]
                 ELSE [thr[t] EXCEPT !.coord = thr[t].args[thr[t].dim], !.groups = <<>>,
                                !.pc = IF thr[t].args[thr[t].dim] = 0 THEN "getlen" ELSE "while"]]
    /\ UNCHANGED inst
    /\ ConcUnchanged

\* while coord > 0: coord % self.max_children is evaluated.
ThrWhile(t) ==
    /\ thr[t].pc = "while"
    /\ thr' = [thr EXCEPT ![t] =
                 IF thr[t].coord > 0
                 THEN [thr[t] EXCEPT !.rem = thr[t].coord % inst.max_children, !.pc = "getlen"]
                 ELSE [thr[t] EXCEPT !.groups = Reverse(thr[t].groups), !.pc = "append"]]
    /\ UNCHANGED inst
    /\ ConcUnchanged

\* self.decimal_len: cached_property looks the attribute up in the instance
\* __dict__.
ThrGetLen(t) ==
    /\ thr[t].pc = "getlen"
    /\ thr' = [thr EXCEPT ![t] =
                 IF "decimal_len" \in DOMAIN inst
                 THEN [thr[t] EXCEPT !.val = inst.decimal_len, !.pc = "fmt"]
                 ELSE [thr[t] EXCEPT !.miss = TRUE, !.pc = "compute"]]
    /\ UNCHANGED inst
    /\ ConcUnchanged

\* The lookup missed: the property body is evaluated.
ThrCompute(t) ==
    /\ thr[t].pc = "compute"
    /\ thr' = [thr EXCEPT ![t] = [thr[t] EXCEPT !.val = DecimalLen(inst), !.pc = "store"]]
    /\ UNCHANGED inst
    /\ ConcUnchanged

\* cached_property writes the value into the instance __dict__.
ThrStore(t) ==
    /\ thr[t].pc = "store"
    /\ inst' = CacheStore(inst, thr[t].val)
    /\ thr' = [thr EXCEPT ![t] = [thr[t] EXCEPT !.pc = "fmt"]]
    /\ ConcUnchanged

\* coord == 0: return ["0" * decimal_len].  In the loop: the group is
\* formatted and appended, and coord //= self.max_children.
ThrFmt(t) ==
    /\ thr[t].pc = "fmt"
    /\ thr' = [thr EXCEPT ![t] =
                 IF thr[t].coord = 0
                 THEN [thr[t] EXCEPT !.groups = <<Repeat("0", thr[t].val)>>, !.pc = "append"]
                 ELSE [thr[t] EXCEPT !.groups = Append(thr[t].groups, FormatZeroPad(thr[t].rem, thr[t].val)),
                                !.coord = thr[t].coord \div inst.max_children,
                                !.pc = "while"]]
    /\ UNCHANGED inst
    /\ ConcUnchanged

\* parts.append(str(len(coords) - 1)); parts.extend(coords)
ThrAppend(t) ==
    /\ thr[t].pc = "append"
    /\ thr' = [thr EXCEPT ![t] =
                 [thr[t] EXCEPT !.parts = Append(thr[t].parts, Str(Len(thr[t].groups) - 1)) \o thr[t].groups,
                           !.dim = thr[t].dim + 1,
                           !.pc = "for"]]
    /\ UNCHANGED inst
    /\ ConcUnchanged

\* The caller takes the returned key; the thread is free for another call.
ThrReturn(t) ==
    /\ thr[t].pc = "done"
    /\ thr' = [thr EXCEPT ![t] = IdleFrame]
    /\ UNCHANGED inst
    /\ ConcUnchanged

NextConc ==
    \E t \in Threads :
        \/ \E c \in ConcCoords : ThrCall(t, c)
        \/ ThrFor(t)
        \/ ThrWhile(t)
        \/ ThrGetLen(t)
        \/ ThrCompute(t)
        \/ ThrStore(t)
        \/ ThrFmt(t)
        \/ ThrAppend(t)
        \/ ThrReturn(t)

SpecConc == InitConc /\ [][NextConc]_vars

(***************************************************************************)
(* SpecScan: a writer encodes a run of coordinates under one configuration *)
(* and writes each key to a hierarchical store, which creates one          *)
(* directory entry per path segment.                                       *)
(***************************************************************************)
\* The raw values the configuration is constructed from.
ScanRawValues == {100, 150}

ScanStrides == {1, 3}

ScanShapes == {"x", "xy"}

\* The coordinate the writer encodes at position pos.
ScanCoords(sc) == IF sc.shape = "x" THEN <<sc.pos>> ELSE <<sc.pos, ScanLimit - sc.pos>>

RECURSIVE GroupPositions(_, _)
\* The positions of segs, read from pos, that the depth markers announce as
\* digit groups.
GroupPositions(segs, pos) ==
    IF pos > Len(segs) THEN {}
    ELSE LET m == IF IsNumeral(segs[pos]) THEN NumeralValue(segs[pos]) ELSE 0
         IN ((pos + 1)..(pos + m + 1)) \cup GroupPositions(segs, pos + m + 2)

\* The directory entries that writing key creates: one per segment below the
\* root, under the path of the segments before it.
Entries(key) ==
    LET segs == Segments(key)
        groups == GroupPositions(segs, 2)
    IN {[dir |-> SubSeq(segs, 1, i - 1), name |-> segs[i], group |-> (i \in groups)] :
            i \in 2..Len(segs)}

InitScan ==
    /\ \E n \in ScanRawValues :
          /\ raw = n
          /\ warned = PostInit(n).warned
          /\ inst = [max_children |-> PostInit(n).max_children]
    /\ obj = "built"
    /\ call = NoCall
    /\ restored = NoRestore
    /\ thr = [t \in Threads |-> IdleFrame]
    /\ store = {}
    /\ \E st \in ScanStrides, sh \in ScanShapes : scan = [pos |-> 0, stride |-> st, shape |-> sh]
    /\ pkg = NoPkg

\* store[cfg.encode_chunk_key(coords)] = chunk
Put ==
    /\ scan.pos <= ScanLimit
    /\ LET key == EncodeChunkKey(inst, ScanCoords(scan))
       IN /\ call' = [coords |-> ScanCoords(scan),
                      outcome |-> IF key = <<"diverged">> THEN "diverged" ELSE "returned",
                      key |-> key]
          /\ store' = store \cup Entries(key)
    /\ inst' = SelfAfterEncode(inst, ScanCoords(scan))
    /\ scan' = [scan EXCEPT !.pos = @ + scan.stride]
    /\ UNCHANGED <<obj, raw, warned, restored, thr, pkg>>

NextScan == Put

SpecScan == InitScan /\ [][NextScan]_vars

(***************************************************************************)
(* SpecPkg: a caller of the package-exported class.                        *)
(***************************************************************************)
\* max_children values of the exported class, which validates nothing.
PkgMaxValues == {1, 2, 3, 5, 9, 10, 11, 87, 101, 1001}

\* Arguments of direct _fanout_coord calls.
PkgFanoutValues == {-1, 0, 1, 2, 7, 8, 10, 16, 64, 100, 500, 1000, 1933899}

\* Values of one coordinate component.
PkgCoordValues == {-1, 0, 18, 27, 9999, 1933899}

PkgCoords == UNION {[1..d -> PkgCoordValues] : d \in 0..MaxDims}

InitPkg ==
    /\ obj = "none"
    /\ raw = 0
    /\ warned = FALSE
    /\ inst = NoInst
    /\ call = NoCall
    /\ restored = NoRestore
    /\ thr = [t \in Threads |-> IdleFrame]
    /\ store = {}
    /\ scan = NoScan
    /\ pkg = NoPkg

PkgUnchanged == UNCHANGED <<obj, raw, warned, inst, call, restored, thr, store, scan>>

\* FanoutChunkKeyEncoding(max_children=n) of the exported class.
PkgConstruct(n) ==
    /\ pkg' = [NoPkg EXCEPT !.max_children = n]
    /\ PkgUnchanged

\* parts = cfg._fanout_coord(coord)
PkgFanout(coord) ==
    /\ LET r == PkgFanoutCoord(pkg, coord)
       IN pkg' = [pkg EXCEPT !.op = "fanout", !.arg = coord,
                             !.outcome = r.outcome, !.result = r.parts]
    /\ PkgUnchanged

\* key = cfg.encode_chunk_key(chunk_coords)
PkgEncode(chunk_coords) ==
    /\ LET r == PkgEncodeChunkKey(pkg, chunk_coords)
       IN pkg' = [pkg EXCEPT !.op = "encode", !.arg = chunk_coords,
                             !.outcome = r.outcome, !.result = r.key]
    /\ PkgUnchanged

NextPkg ==
    \/ \E n \in PkgMaxValues : PkgConstruct(n)
    \/ \E x \in PkgFanoutValues : PkgFanout(x)
    \/ \E c \in PkgCoords : PkgEncode(c)

SpecPkg == InitPkg /\ [][NextPkg]_vars

Returned == obj = "built" /\ call.outcome = "returned"

(***************************************************************************)
(* Properties of Spec.                                                     *)
(***************************************************************************)
\* C1: a constructor call with n < 100 raises ValueError and leaves no
\* configuration object, neither partial nor defaulted; with n >= 100 it
\* succeeds.
C1_ValidationFloor ==
    obj # "none" =>
        /\ raw < 100 => (obj = "failed" /\ inst = NoInst)
        /\ raw >= 100 => (obj = "built" /\ "max_children" \in DOMAIN inst)

C1_Witness == obj = "failed" /\ raw = 99

\* C2: for n >= 100 the constructed configuration has
\* max_children = 10^(digits(n) - 1), and the adjustment warning is emitted
\* iff n differs from that value.
C2_PowerOfTenFlooring ==
    (obj = "built" /\ raw >= 100) =>
        /\ inst.max_children = Pow(10, Digits(raw) - 1)
        /\ warned <=> (raw # Pow(10, Digits(raw) - 1))

C2_Witness == obj = "built" /\ raw = 1234 /\ warned /\ inst.max_children = 1000

\* C3: under one configuration no other coordinate of non-negative
\* components encodes to the key returned for a coordinate of non-negative
\* components.
C3_Injective ==
    (Returned /\ NonNegative(call.coords)) =>
        \A c2 \in Coords :
            (NonNegative(c2) /\ c2 # call.coords) => EncodeChunkKey(inst, c2) # call.key

C3_Witness ==
    /\ Returned
    /\ inst.max_children = 100
    /\ call.coords = <<100, 1>>

\* C4: encode_chunk_key never returns a key for a coordinate with a negative
\* component, and returns one for every coordinate of non-negative components.
C4_NegativeRejected ==
    (obj = "built" /\ call.outcome # "none") =>
        (call.outcome = "returned" <=> NonNegative(call.coords))

\* C5: constructing from to_dict() of a configuration gives an equal
\* configuration, without a warning, that encodes every coordinate to the
\* same key.
C5_RoundTrip ==
    (obj = "built" /\ restored.done) =>
        /\ ~restored.raised
        /\ ~restored.warned
        /\ restored.max_children = inst.max_children
        /\ \A c \in Coords :
              EncodeChunkKey([max_children |-> restored.max_children], c)
                  = EncodeChunkKey(inst, c)

C5_Witness == obj = "built" /\ restored.done /\ raw = 150 /\ warned

\* C7: the key is the '/'-join of "c" and, per dimension in order, the
\* unpadded marker (group_count - 1) and the canonical base-max_children
\* digits of the component as groups of digit_width characters; the empty
\* coordinate gives "c".
C7_KeyShape ==
    (Returned /\ NonNegative(call.coords)) =>
        LET segs == Segments(call.key)
        IN /\ Len(segs) >= 1
           /\ segs[1] = <<"c">>
           /\ Canonical(segs, 2, call.coords, inst.max_children)
           /\ call.coords = <<>> => call.key = <<"c">>

C7_Witness ==
    /\ Returned
    /\ inst.max_children = 1000
    /\ call.coords = <<12345, 0>>
    /\ call.key = <<"c", "/", "1", "/", "0", "1", "2", "/", "3", "4", "5", "/",
                    "0", "/", "0", "0", "0">>

\* C10: no key is a proper segment-prefix of the key of another coordinate
\* with as many dimensions, and each depth marker m of a key is followed by
\* exactly m + 1 digit groups before the next marker or the end.
C10_PrefixFree ==
    (Returned /\ NonNegative(call.coords)) =>
        LET segs == Segments(call.key)
        IN /\ segs[1] = <<"c">>
           /\ Framed(segs, 2, Len(call.coords), inst.max_children)
           /\ \A c2 \in Coords :
                 (NonNegative(c2) /\ Len(c2) = Len(call.coords) /\ c2 # call.coords) =>
                     LET segs2 == Segments(EncodeChunkKey(inst, c2))
                     IN ~ProperPrefix(segs, segs2) /\ ~ProperPrefix(segs2, segs)

C10_Witness ==
    /\ Returned
    /\ inst.max_children = 100
    /\ call.coords = <<100, 0>>
    /\ Len(Segments(call.key)) = 6

(***************************************************************************)
(* Properties of SpecConc.                                                 *)
(***************************************************************************)
\* C6: under every interleaving each concurrent encode_chunk_key call on the
\* shared configuration returns the key the same call returns when run
\* alone, and max_children of the shared configuration keeps the value it
\* was constructed with.
C6_ConcurrentCallsAgree ==
    /\ inst.max_children = PostInit(raw).max_children
    /\ \A t \in Threads :
          thr[t].pc = "done" =>
              thr[t].ret = EncodeChunkKey([max_children |-> PostInit(raw).max_children],
                                          thr[t].args)

C6_Witness ==
    /\ \A t \in Threads : thr[t].pc = "done" /\ thr[t].miss
    /\ thr[1].args = <<12345>>
    /\ thr[2].args = <<99, 100>>
    /\ "decimal_len" \in DOMAIN inst

(***************************************************************************)
(* Properties of SpecScan.                                                 *)
(***************************************************************************)
\* The names of the digit groups the store holds directly under dir.
GroupChildren(dir) == {e.name : e \in {g \in store : g.group /\ g.dir = dir}}

\* C8: every digit group written has exactly digit_width =
\* digits(max_children - 1) characters and a value in 0..max_children - 1,
\* and no directory of the store holds more than max_children distinct
\* digit groups.
C8_FanoutBound ==
    /\ \A e \in store : e.group => IsGroup(e.name, inst.max_children)
    /\ \A dir \in {e.dir : e \in {g \in store : g.group}} :
          Cardinality(GroupChildren(dir)) <= inst.max_children

C8_Witness ==
    /\ inst.max_children = 100
    /\ Cardinality(GroupChildren(<<<<"c">>, <<"0">>>>)) = 100
    /\ <<<<"c">>, <<"1">>, <<"0", "1">>>> \in {e.dir : e \in store}

(***************************************************************************)
(* Properties of SpecPkg.                                                  *)
(***************************************************************************)
\* parts are the unpadded decimal strings of the canonical base-base digits
\* of coord, most significant first.
PkgDigits(parts, base, coord) ==
    /\ Len(parts) >= 1
    /\ \A i \in 1..Len(parts) :
          IsUnpadded(parts[i]) /\ NumeralValue(parts[i]) \in 0..(base - 1)
    /\ GroupsValue(parts, base) = coord
    /\ coord = 0 => parts = <<<<"0">>>>
    /\ coord > 0 => NumeralValue(parts[1]) # 0

RECURSIVE RunEnd(_, _)
\* The last position of the run of numerals that starts right after pos.
RunEnd(segs, pos) ==
    IF pos + 1 <= Len(segs) /\ IsNumeral(segs[pos + 1]) THEN RunEnd(segs, pos + 1)
    ELSE pos

RECURSIVE PkgShape(_, _, _, _, _)
\* segs from position pos: for each component the segment "d<dim>" and its
\* digits, and then the final segment "c".
PkgShape(segs, pos, dim, coords, base) ==
    IF Len(coords) = 0 THEN pos = Len(segs) /\ segs[pos] = <<"c">>
    ELSE /\ pos <= Len(segs)
         /\ Len(segs[pos]) >= 2
         /\ Head(segs[pos]) = "d"
         /\ IsUnpadded(Tail(segs[pos]))
         /\ NumeralValue(Tail(segs[pos])) = dim
         /\ PkgDigits(SubSeq(segs, pos + 1, RunEnd(segs, pos)), base, Head(coords))
         /\ PkgShape(segs, RunEnd(segs, pos) + 1, dim + 1, Tail(coords), base)

\* C9: with max_children >= 3 and non-negative coordinates, _fanout_coord of
\* the exported class returns the unpadded base-(max_children - 1) digits,
\* most significant first, and encode_chunk_key returns the '/'-join of
\* "d<i>" and the digits of component i for each i in order, then "c".
C9_PkgEncoding ==
    pkg.max_children >= 3 =>
        /\ (pkg.op = "fanout" /\ pkg.arg >= 0) =>
              /\ pkg.outcome = "returned"
              /\ PkgDigits(pkg.result, pkg.max_children - 1, pkg.arg)
        /\ (pkg.op = "encode" /\ NonNegative(pkg.arg)) =>
              /\ pkg.outcome = "returned"
              /\ PkgShape(Segments(pkg.result), 1, 0, pkg.arg, pkg.max_children - 1)

C9_Witness ==
    /\ pkg.max_children = 10
    /\ pkg.op = "encode"
    /\ pkg.arg = <<18, 27>>
    /\ pkg.result = <<"d", "0", "/", "2", "/", "0", "/", "d", "1", "/", "3", "/", "0",
                      "/", "c">>

====
